---- MODULE Spec2Model ----
(***************************************************************************)
(* Model of the strategy-dump readers parse_strategy_p0.py (first-to-act   *)
(* player) and parse_strategy_p1.py (responder).  A text is a sequence of  *)
(* one-character strings, so that strip, split, startswith and index are   *)
(* computed on characters as Python computes them.  A probability is a     *)
(* fixed-point number of hundredths (0.7 is 70); a product of two          *)
(* probabilities is (x * y) \div 100, exact for one-decimal inputs.        *)
(***************************************************************************)
EXTENDS Integers, Sequences, FiniteSets, TLC

VARIABLES player, lines, pc, i, in_player, player_lines, strategies,
          card_keys, cards, result, result_checked_to, result_bet_into,
          ret, err

vars == <<player, lines, pc, i, in_player, player_lines, strategies,
          card_keys, cards, result, result_checked_to, result_bet_into,
          ret, err>>

(* ------------------------------------------------------------------ *)
(* String literals of the source.                                      *)
(* ------------------------------------------------------------------ *)
sPLAYER0 == <<"P","L","A","Y","E","R",":"," ","0">>
sPLAYER1 == <<"P","L","A","Y","E","R",":"," ","1">>
sEND == <<"E","N","D">>
sTag0 == <<"[","P","l","a","y","e","r",":"," ","0">>
sTag1 == <<"[","P","l","a","y","e","r",":"," ","1">>
sTab == <<"\t">>
sCard == <<"C","a","r","d",":"," ">>
sComma == <<",">>
sHistory == <<"H","i","s","t","o","r","y",":"," ">>
sActionsEnd == <<" ","A","c","t","i","o","n","s",":">>
sActions == <<"A","c","t","i","o","n","s",":"," ">>
sBracket == <<"]">>
sCommaSp == <<","," ">>
sBar == <<"|">>
card_order == <<"A","K","Q","J","T","9","8","7","6","5","4","3","2">>
kRoot == <<"|","B","E","T",",","C","H","E","C","K">>
kCheckBet == <<"C","H","E","C","K",","," ","B","E","T","|","C","A","L","L","B","E","T",",","F","O","L","D",",","R","A","I","S","E">>
kBetRaise == <<"B","E","T",","," ","R","A","I","S","E","|","C","A","L","L","R","A","I","S","E",",","F","O","L","D">>
kCheckedTo == <<"C","H","E","C","K","|","B","E","T",",","C","H","E","C","K">>
kCheckBetRaise == <<"C","H","E","C","K",","," ","B","E","T",","," ","R","A","I","S","E","|","C","A","L","L","R","A","I","S","E",",","F","O","L","D">>
kBetInto == <<"B","E","T","|","C","A","L","L","B","E","T",",","F","O","L","D",",","R","A","I","S","E">>

(* ------------------------------------------------------------------ *)
(* Python string operations.                                           *)
(* ------------------------------------------------------------------ *)
Min(S) == CHOOSE x \in S : \A y \in S : x <= y

Max(S) == CHOOSE x \in S : \A y \in S : x >= y

\* str.isspace for one character
IsWs(c) == c \in {" ", "\t", "\n", "\r"}

\* s.strip(): leading and trailing whitespace removed
Strip(s) ==
  IF \A k \in 1..Len(s) : IsWs(s[k]) THEN <<>>
  ELSE LET lead  == CHOOSE n \in 0..Len(s) :
                      /\ \A k \in 1..n : IsWs(s[k])
                      /\ ~IsWs(s[n + 1])
           trail == CHOOSE n \in 0..Len(s) :
                      /\ \A k \in 1..n : IsWs(s[Len(s) + 1 - k])
                      /\ ~IsWs(s[Len(s) - n])
       IN  SubSeq(s, lead + 1, Len(s) - trail)

\* s.startswith(pre)
StartsWith(s, pre) == Len(s) >= Len(pre) /\ SubSeq(s, 1, Len(pre)) = pre

\* s.find(sub) counted from 1; 0 when sub does not occur in s
Find(s, sub) ==
  LET at == {k \in 1..(Len(s) - Len(sub) + 1) : SubSeq(s, k, k + Len(sub) - 1) = sub}
  IN  IF at = {} THEN 0 ELSE Min(at)

\* s.split(sep) for a non-empty separator
RECURSIVE Split(_, _)
Split(s, sep) ==
  LET k == Find(s, sep)
  IN  IF k = 0 THEN <<s>>
      ELSE <<SubSeq(s, 1, k - 1)>> \o Split(SubSeq(s, k + Len(sep), Len(s)), sep)

\* s.split(): split on runs of whitespace, no empty parts
RECURSIVE SplitWs(_)
SplitWs(s) ==
  LET t  == Strip(s)
      ws == {k \in 1..Len(t) : IsWs(t[k])}
  IN  IF t = <<>> THEN <<>>
      ELSE IF ws = {} THEN <<t>>
      ELSE <<SubSeq(t, 1, Min(ws) - 1)>> \o SplitWs(SubSeq(t, Min(ws), Len(t)))

\* sep.join(parts)
RECURSIVE Join(_, _)
Join(parts, sep) ==
  IF parts = <<>> THEN <<>>
  ELSE IF Len(parts) = 1 THEN parts[1]
  ELSE parts[1] \o sep \o Join(Tail(parts), sep)

DigitVal ==
  ("0" :> 0) @@ ("1" :> 1) @@ ("2" :> 2) @@ ("3" :> 3) @@ ("4" :> 4) @@
  ("5" :> 5) @@ ("6" :> 6) @@ ("7" :> 7) @@ ("8" :> 8) @@ ("9" :> 9)

IsDigit(c) == c \in DOMAIN DigitVal

\* float(tok) in hundredths for the literals d, d., .e, d.e and d.ef;
\* -1 stands for the ValueError float() raises on a text that is no number
ParseFloat(tok) ==
  CASE Len(tok) = 1 /\ IsDigit(tok[1]) -> 100 * DigitVal[tok[1]]
    [] Len(tok) = 2 /\ IsDigit(tok[1]) /\ tok[2] = "." -> 100 * DigitVal[tok[1]]
    [] Len(tok) = 2 /\ tok[1] = "." /\ IsDigit(tok[2]) -> 10 * DigitVal[tok[2]]
    [] Len(tok) = 3 /\ IsDigit(tok[1]) /\ tok[2] = "." /\ IsDigit(tok[3]) ->
         100 * DigitVal[tok[1]] + 10 * DigitVal[tok[3]]
    [] Len(tok) = 4 /\ IsDigit(tok[1]) /\ tok[2] = "." /\ IsDigit(tok[3]) /\ IsDigit(tok[4]) ->
         100 * DigitVal[tok[1]] + 10 * DigitVal[tok[3]] + DigitVal[tok[4]]
    [] OTHER -> -1

\* x * y on probabilities
Mul(x, y) == (x * y) \div 100

(* ------------------------------------------------------------------ *)
(* Record parser and strategy index.                                   *)
(* ------------------------------------------------------------------ *)
\* the marker line "PLAYER: p" that opens the reader's section
PlayerMarker(p) == IF p = 0 THEN sPLAYER0 ELSE sPLAYER1

\* the tag "[Player: p" a record of the reader's player starts with
PlayerTag(p) == IF p = 0 THEN sTag0 ELSE sTag1

Raise(e) == [ok |-> FALSE, err |-> e]

\* p0: history|a0,a1 for two actions, otherwise history|a0,a1,a2
\* (an IndexError when there are fewer than two actions)
KeyP0(history, actions) ==
  IF Len(actions) = 2
  THEN history \o sBar \o actions[1] \o sComma \o actions[2]
  ELSE history \o sBar \o actions[1] \o sComma \o actions[2] \o sComma \o actions[3]

\* p1: history|','.join(actions)
KeyP1(history, actions) == history \o sBar \o Join(actions, sComma)

\* the key expression raises IndexError
KeyFails(p, actions) == p = 0 /\ Len(actions) # 2 /\ Len(actions) < 3

KeyOf(p, history, actions) ==
  IF p = 0 THEN KeyP0(history, actions) ELSE KeyP1(history, actions)

\* probs = [float(p) for p in probs.split()]
ProbsOf(text) ==
  LET toks == SplitWs(text)
  IN  [k \in 1..Len(toks) |-> ParseFloat(toks[k])]

\* card = info.split("Card: ")[1].split(",")[0]
CardOf(info) == Split(Split(info, sCard)[2], sComma)[1]

\* history = info.split("History: ")[1].split(" Actions:")[0].strip()
HistoryOf(info) == Strip(Split(Split(info, sHistory)[2], sActionsEnd)[1])

\* actions = info.split("Actions: ")[1].split("]")[0].split(", ")
ActionsOf(info) == Split(Split(Split(info, sActions)[2], sBracket)[1], sCommaSp)

\* line.split("\t") with at most one split: a second tab stays in the
\* probabilities text
TabPartsFirstTab(line) ==
  LET ps == Split(line, sTab)
  IN  IF Len(ps) > 2 THEN <<ps[1], Join(Tail(ps), sTab)>> ELSE ps

\* line.split("\t")
TabParts(line) == Split(line, sTab)

\* one record line (already stripped, starting with the player's tag):
\* the record [card, history, actions, key, probs], or the exception raised;
\* info, probs = line.split("\t") raises ValueError unless there are two parts
ParseRecord(p, line) ==
  LET parts == TabParts(line)
  IN  IF Len(parts) # 2 THEN Raise("ValueError")
      ELSE LET info  == parts[1]
               probs == ProbsOf(parts[2])
           IN  IF \E k \in 1..Len(probs) : probs[k] = -1 THEN Raise("ValueError")
               ELSE IF Len(Split(info, sCard)) < 2 THEN Raise("IndexError")
               ELSE IF Len(Split(info, sHistory)) < 2 THEN Raise("IndexError")
               ELSE IF Len(Split(info, sActions)) < 2 THEN Raise("IndexError")
               ELSE IF KeyFails(p, ActionsOf(info)) THEN Raise("IndexError")
               ELSE [ok |-> TRUE, card |-> CardOf(info), history |-> HistoryOf(info),
                     actions |-> ActionsOf(info),
                     key |-> KeyOf(p, HistoryOf(info), ActionsOf(info)),
                     probs |-> probs]

\* card_data.get(key, default)
Get(d, key, default) == IF key \in DOMAIN d THEN d[key] ELSE default

\* a store that keeps the vector already held for the key
StoreFirstWins(s, card, key, probs) ==
  LET d == IF card \in DOMAIN s THEN s[card] ELSE <<>>
  IN  (card :> (d @@ (key :> probs))) @@ s

\* strategies[card][key] = probs, after strategies[card] = {} for a new card
Store(s, card, key, probs) ==
  LET d == IF card \in DOMAIN s THEN s[card] ELSE <<>>
  IN  (card :> ((key :> probs) @@ d)) @@ s

\* the dict's keys in insertion order
KeysAfterStore(ks, s, card) == IF card \in DOMAIN s THEN ks ELSE Append(ks, card)

(* ------------------------------------------------------------------ *)
(* Table builder: card order.                                          *)
(* ------------------------------------------------------------------ *)
\* card_order.index(x): position of the first occurrence of the text x in
\* card_order, from 0; -1 stands for the ValueError of a text not found
CardIndex(x) == Find(card_order, x) - 1

RECURSIVE InsertByIndex(_, _)
InsertByIndex(x, s) ==
  IF s = <<>> THEN <<x>>
  ELSE IF CardIndex(x) < CardIndex(s[1]) THEN <<x>> \o s
  ELSE <<s[1]>> \o InsertByIndex(x, Tail(s))

\* sorted(keys, key=card_order.index): stable
RECURSIVE Sorted(_)
Sorted(s) ==
  IF s = <<>> THEN <<>>
  ELSE InsertByIndex(s[Len(s)], Sorted(SubSeq(s, 1, Len(s) - 1)))

\* np.zeros((rows, n)): rows numbered from 0, columns from 1
Zeros(rows, n) == [r \in 0..(rows - 1) |-> [c \in 1..n |-> 0]]

(* ------------------------------------------------------------------ *)
(* Path composer.                                                      *)
(* ------------------------------------------------------------------ *)
\* the defaults the first-to-act reader passes to get()
DefaultCheckP0 == <<0, 100>>

DefaultBetP0 == <<100, 0>>

DefaultCheckActionsP0 == <<0, 0, 0>>

DefaultBetActionsP0 == <<0, 0>>

\* the defaults the responder reader passes to get()
DefaultCheckedToP1 == <<0, 100>>

DefaultRaiseResponseZero == <<0, 0>>

DefaultRaiseResponseP1 == <<0, 100>>

DefaultBetIntoP1 == <<0, 0, 0>>

\* check_prob = card_data.get("|BET,CHECK", [0, 1])[1]
CheckProbP0(d) == Get(d, kRoot, DefaultCheckP0)[2]

\* bet_prob = card_data.get("|BET,CHECK", [1, 0])[0]
BetProbP0(d) == Get(d, kRoot, DefaultBetP0)[1]

CheckActionsP0(d) == Get(d, kCheckBet, DefaultCheckActionsP0)

BetActionsP0(d) == Get(d, kBetRaise, DefaultBetActionsP0)

\* the assignments with the fold and call positions exchanged
WritesP0Swapped(d) ==
  << <<0, CheckProbP0(d), CheckActionsP0(d), 1>>,
     <<1, CheckProbP0(d), CheckActionsP0(d), 2>>,
     <<2, CheckProbP0(d), CheckActionsP0(d), 3>>,
     <<3, BetProbP0(d), BetActionsP0(d), 1>>,
     <<4, BetProbP0(d), BetActionsP0(d), 2>> >>

\* the five assignments of p0 in program order: <<row, factor, vector, index>>
\* with the index counted from 1
WritesP0(d) ==
  << <<0, CheckProbP0(d), CheckActionsP0(d), 2>>,
     <<1, CheckProbP0(d), CheckActionsP0(d), 1>>,
     <<2, CheckProbP0(d), CheckActionsP0(d), 3>>,
     <<3, BetProbP0(d), BetActionsP0(d), 2>>,
     <<4, BetProbP0(d), BetActionsP0(d), 1>> >>

\* p0 raises IndexError before any assignment: the root vector is too short
RootFailsP0(d) == Len(Get(d, kRoot, DefaultCheckP0)) < 2

\* how many of the assignments of ws run before one indexes past its vector
RECURSIVE Ran(_)
Ran(ws) ==
  IF ws = <<>> THEN 0
  ELSE IF ws[1][4] > Len(ws[1][3]) THEN 0
  ELSE 1 + Ran(Tail(ws))

\* result after the first n assignments of ws to column col
RECURSIVE Assign(_, _, _, _)
Assign(res, ws, n, col) ==
  IF n = 0 THEN res
  ELSE LET w == ws[1]
       IN  Assign([res EXCEPT ![w[1]][col] = Mul(w[2], w[3][w[4]])], Tail(ws), n - 1, col)

CheckedToProbsP1(d) == Get(d, kCheckedTo, DefaultCheckedToP1)

RaiseResponseProbsP1(d) == Get(d, kCheckBetRaise, DefaultRaiseResponseP1)

BetIntoProbsP1(d) == Get(d, kBetInto, DefaultBetIntoP1)

\* callraise_prob, fold_to_raise_prob: from the vector when it is not
\* empty, otherwise 0 and 1
CallRaiseProbP1(d) ==
  IF RaiseResponseProbsP1(d) # <<>> THEN RaiseResponseProbsP1(d)[1] ELSE 0

FoldToRaiseProbP1(d) ==
  IF RaiseResponseProbsP1(d) # <<>> THEN RaiseResponseProbsP1(d)[2] ELSE 100

\* p1 raises IndexError before any assignment
HeadFailsP1(d) ==
  \/ Len(CheckedToProbsP1(d)) < 2
  \/ RaiseResponseProbsP1(d) # <<>> /\ Len(RaiseResponseProbsP1(d)) < 2

\* result_checked_to column for one card
CheckedToColumn(res, d, col) ==
  [res EXCEPT ![0][col] = Mul(CheckedToProbsP1(d)[1], CallRaiseProbP1(d)),
              ![1][col] = Mul(CheckedToProbsP1(d)[1], FoldToRaiseProbP1(d)),
              ![2][col] = CheckedToProbsP1(d)[2]]

\* result_bet_into after the first n of its three assignments
BetIntoColumn(res, d, col, n) ==
  [r \in DOMAIN res |->
     IF r < n THEN [res[r] EXCEPT ![col] = BetIntoProbsP1(d)[r + 1]] ELSE res[r]]

RowsP0 == <<"CHECK+FOLD", "CHECK+CALLBET", "CHECK+RAISE", "BET+FOLD", "BET+CALLRAISE">>

RowsCheckedTo == <<"BET+CALLRAISE", "BET+FOLD", "CHECK">>

RowsBetInto == <<"CALLBET", "FOLD", "RAISE">>

\* pd.DataFrame(values, columns=cards, index=rows)
DataFrame(values, columns, index) ==
  [values |-> values, columns |-> columns, index |-> index]

(* ------------------------------------------------------------------ *)
(* Input files: texts of the dump format.                              *)
(* ------------------------------------------------------------------ *)
tCardField == <<" ","C","a","r","d",":"," ">>
tHistField == <<","," ","H","i","s","t","o","r","y",":"," ">>
tActField == <<" ","A","c","t","i","o","n","s",":"," ">>
hEmpty == <<>>
hCommaTypo == <<",">>
hCheck == <<"C","H","E","C","K">>
hBet == <<"B","E","T">>
hCheckBet == <<"C","H","E","C","K",","," ","B","E","T">>
hBetRaise == <<"B","E","T",","," ","R","A","I","S","E">>
hCheckBetRaise == <<"C","H","E","C","K",","," ","B","E","T",","," ","R","A","I","S","E">>
aBetCheck == <<"B","E","T",","," ","C","H","E","C","K">>
aCallFoldRaise == <<"C","A","L","L","B","E","T",","," ","F","O","L","D",","," ","R","A","I","S","E">>
aCallRaiseFold == <<"C","A","L","L","R","A","I","S","E",","," ","F","O","L","D">>
cA == <<"A">>
cK == <<"K">>
cAK == <<"A","K">>
c98 == <<"9","8">>
c10 == <<"1","0">>
cNone == <<>>
p73 == <<"0",".","7"," ","0",".","3">>
p46 == <<"0",".","4"," ","0",".","6">>
p262 == <<"0",".","2"," ","0",".","6"," ","0",".","2">>
p91 == <<"0",".","9"," ","0",".","1">>
p55 == <<"0",".","5"," ","0",".","5">>
p01 == <<"0",".","0"," ","1",".","0">>
p721 == <<"0",".","7"," ","0",".","2"," ","0",".","1">>
p1 == <<"1",".","0">>
p73tab == <<"0",".","7","\t","0",".","3">>
p73trail == <<"0",".","7"," ","0",".","3","\t"," ">>
blank == <<" "," ">>

\* [Player: q Card: card, History: hist Actions: acts]<sep>probs
RecSep(q, card, hist, acts, sep, probs) ==
  PlayerTag(q) \o tCardField \o card \o tHistField \o hist \o tActField \o acts
    \o sBracket \o sep \o probs

Rec(q, card, hist, acts, probs) == RecSep(q, card, hist, acts, sTab, probs)

\* the root record of card A as the end-to-end scenario writes it
\* ("History: , Actions:") and as the dump format writes an empty history
RootAsWritten == Rec(0, cA, hCommaTypo, aBetCheck, p73)

RootEmptyHistory == Rec(0, cA, hEmpty, aBetCheck, p73)

CheckBetA == Rec(0, cA, hCheckBet, aCallFoldRaise, p262)

BetRaiseA == Rec(0, cA, hBetRaise, aCallRaiseFold, p91)

\* well-formed records of player p: two cards, every information set of
\* the role, one key written twice with different vectors
GoodPool(p) ==
  IF p = 0
  THEN {RootAsWritten, RootEmptyHistory, Rec(0, cA, hEmpty, aBetCheck, p46),
        CheckBetA, BetRaiseA,
        Rec(0, cK, hBetRaise, aCallRaiseFold, p55)}
  ELSE {Rec(1, cA, hCheck, aBetCheck, p73), Rec(1, cA, hCheck, aBetCheck, p46),
        Rec(1, cA, hCheckBetRaise, aCallRaiseFold, p91),
        Rec(1, cA, hBet, aCallFoldRaise, p262),
        Rec(1, cK, hCheck, aBetCheck, p01),
        Rec(1, cK, hCheckBetRaise, aCallRaiseFold, p55)}

\* the first decision of player p (root for p0, checked-to for p1)
FirstHistory(p) == IF p = 0 THEN hEmpty ELSE hCheck

\* a good record among lines whose tabs are missing, doubled or only
\* trailing, a line of the other player and a blank line
TabPool(p) ==
  {Rec(p, cA, FirstHistory(p), aBetCheck, p73),
   RecSep(p, cA, FirstHistory(p), aBetCheck, <<" ">>, p73),
   Rec(p, cA, FirstHistory(p), aBetCheck, p73tab),
   Rec(p, cA, FirstHistory(p), aBetCheck, p73trail),
   RecSep(1 - p, cA, FirstHistory(p), aBetCheck, <<" ">>, p73),
   blank}

\* a good record among records with a wrong probability count, a card
\* text that is no rank, or a missing marker
FieldPool(p) ==
  {Rec(p, cK, FirstHistory(p), aBetCheck, p73),
   Rec(p, cA, FirstHistory(p), aBetCheck, p721),
   Rec(p, cA, FirstHistory(p), aBetCheck, p1),
   Rec(p, cAK, FirstHistory(p), aBetCheck, p73),
   Rec(p, c98, FirstHistory(p), aBetCheck, p73),
   Rec(p, c10, FirstHistory(p), aBetCheck, p73),
   Rec(p, cNone, FirstHistory(p), aBetCheck, p73),
   PlayerTag(p) \o tCardField \o cA \o sBracket \o sTab \o p1}

\* section markers and one record of each player
ScopePool ==
  {sPLAYER0, sPLAYER1, sEND, Rec(0, cA, hEmpty, aBetCheck, p73),
   Rec(1, cK, hCheck, aBetCheck, p46)}

MaxRecs == 3

MaxTabLines == 3

MaxBad == 2

MaxLines == 3

SeqsUpTo(S, n) == UNION {[1..k -> S] : k \in 0..n}

\* the files the reader of player p is run on
Files(p) ==
     {<<PlayerMarker(p)>> \o rs \o <<sEND>> : rs \in SeqsUpTo(GoodPool(p), MaxRecs)}
  \cup {<<PlayerMarker(p)>> \o rs : rs \in SeqsUpTo(TabPool(p), MaxTabLines)}
  \cup {<<PlayerMarker(p)>> \o rs : rs \in SeqsUpTo(FieldPool(p), MaxBad)}
  \cup SeqsUpTo(ScopePool, MaxLines)

(* ------------------------------------------------------------------ *)
(* parse_strategy_file as a state machine.                             *)
(* ------------------------------------------------------------------ *)
\* nothing returned; otherwise ret is the sequence of the returned tables
NoTable == <<>>

Init ==
  /\ player \in {0, 1}
  /\ lines \in Files(player)
  /\ pc = "scan"
  /\ i = 1
  /\ in_player = FALSE
  /\ player_lines = <<>>
  /\ strategies = <<>>
  /\ card_keys = <<>>
  /\ cards = <<>>
  /\ result = <<>>
  /\ result_checked_to = <<>>
  /\ result_bet_into = <<>>
  /\ ret = NoTable
  /\ err = "None"

\* one iteration of the section loop
ScanLine ==
  /\ pc = "scan"
  /\ i <= Len(lines)
  /\ i' = i + 1
  /\ LET line == Strip(lines[i])
     IN  IF line = PlayerMarker(player)
         THEN in_player' = TRUE /\ UNCHANGED player_lines
         ELSE IF line = sEND
         THEN in_player' = FALSE /\ UNCHANGED player_lines
         ELSE IF in_player /\ line # <<>>
         THEN player_lines' = Append(player_lines, line) /\ UNCHANGED in_player
         ELSE UNCHANGED <<in_player, player_lines>>
  /\ UNCHANGED <<player, lines, pc, strategies, card_keys, cards, result,
                 result_checked_to, result_bet_into, ret, err>>

\* the section loop ends with the file
ScanEnd ==
  /\ pc = "scan"
  /\ i > Len(lines)
  /\ pc' = "parse"
  /\ i' = 1
  /\ UNCHANGED <<player, lines, in_player, player_lines, strategies, card_keys,
                 cards, result, result_checked_to, result_bet_into, ret, err>>

\* one iteration of the record loop: skip a line without the player's tag,
\* store a parsed record, or leave the function with the exception
ParseLine ==
  /\ pc = "parse"
  /\ i <= Len(player_lines)
  /\ LET line == player_lines[i]
         rec  == ParseRecord(player, line)
     IN  IF ~StartsWith(line, PlayerTag(player))
         THEN i' = i + 1 /\ UNCHANGED <<pc, strategies, card_keys, err>>
         ELSE IF rec.ok
         THEN /\ strategies' = Store(strategies, rec.card, rec.key, rec.probs)
              /\ card_keys' = KeysAfterStore(card_keys, strategies, rec.card)
              /\ i' = i + 1
              /\ UNCHANGED <<pc, err>>
         ELSE /\ pc' = "error"
              /\ err' = rec.err
              /\ UNCHANGED <<i, strategies, card_keys>>
  /\ UNCHANGED <<player, lines, in_player, player_lines, cards, result,
                 result_checked_to, result_bet_into, ret>>

\* cards = sorted(strategies.keys(), key=card_order.index) and the zeroed
\* arrays; index() raises ValueError on a card it does not find
SortCards ==
  /\ pc = "parse"
  /\ i > Len(player_lines)
  /\ IF \E k \in 1..Len(card_keys) : CardIndex(card_keys[k]) = -1
     THEN /\ pc' = "error"
          /\ err' = "ValueError"
          /\ UNCHANGED <<i, cards, result, result_checked_to, result_bet_into>>
     ELSE /\ cards' = Sorted(card_keys)
          /\ pc' = "compose"
          /\ i' = 1
          /\ IF player = 0
             THEN /\ result' = Zeros(5, Len(card_keys))
                  /\ UNCHANGED <<result_checked_to, result_bet_into>>
             ELSE /\ result_checked_to' = Zeros(3, Len(card_keys))
                  /\ result_bet_into' = Zeros(3, Len(card_keys))
                  /\ UNCHANGED result
          /\ UNCHANGED err
  /\ UNCHANGED <<player, lines, in_player, player_lines, strategies, card_keys, ret>>

\* one iteration of the card loop of the first-to-act reader
ComposeCardP0 ==
  /\ pc = "compose"
  /\ player = 0
  /\ i <= Len(cards)
  /\ LET card_data == strategies[cards[i]]
     IN  IF RootFailsP0(card_data)
         THEN pc' = "error" /\ err' = "IndexError" /\ UNCHANGED <<i, result>>
         ELSE LET n == Ran(WritesP0(card_data))
              IN  /\ result' = Assign(result, WritesP0(card_data), n, i)
                  /\ IF n < 5
                     THEN pc' = "error" /\ err' = "IndexError" /\ UNCHANGED i
                     ELSE i' = i + 1 /\ UNCHANGED <<pc, err>>
  /\ UNCHANGED <<player, lines, in_player, player_lines, strategies, card_keys,
                 cards, result_checked_to, result_bet_into, ret>>

\* one iteration of the card loop of the responder reader
ComposeCardP1 ==
  /\ pc = "compose"
  /\ player = 1
  /\ i <= Len(cards)
  /\ LET card_data == strategies[cards[i]]
     IN  IF HeadFailsP1(card_data)
         THEN /\ pc' = "error" /\ err' = "IndexError"
              /\ UNCHANGED <<i, result_checked_to, result_bet_into>>
         ELSE LET n == IF Len(BetIntoProbsP1(card_data)) < 3
                       THEN Len(BetIntoProbsP1(card_data)) ELSE 3
              IN  /\ result_checked_to' = CheckedToColumn(result_checked_to, card_data, i)
                  /\ result_bet_into' = BetIntoColumn(result_bet_into, card_data, i, n)
                  /\ IF n < 3
                     THEN pc' = "error" /\ err' = "IndexError" /\ UNCHANGED i
                     ELSE i' = i + 1 /\ UNCHANGED <<pc, err>>
  /\ UNCHANGED <<player, lines, in_player, player_lines, strategies, card_keys,
                 cards, result, ret>>

\* the data frame(s) built from the arrays and returned
Return ==
  /\ pc = "compose"
  /\ i > Len(cards)
  /\ ret' = IF player = 0
            THEN <<DataFrame(result, cards, RowsP0)>>
            ELSE <<DataFrame(result_checked_to, cards, RowsCheckedTo),
                   DataFrame(result_bet_into, cards, RowsBetInto)>>
  /\ pc' = "done"
  /\ UNCHANGED <<player, lines, i, in_player, player_lines, strategies, card_keys,
                 cards, result, result_checked_to, result_bet_into, err>>

Next ==
  \/ ScanLine
  \/ ScanEnd
  \/ ParseLine
  \/ SortCards
  \/ ComposeCardP0
  \/ ComposeCardP1
  \/ Return

Spec == Init /\ [][Next]_vars

(* ------------------------------------------------------------------ *)
(* Properties.                                                         *)
(* ------------------------------------------------------------------ *)
RECURSIVE SumSeq(_)
SumSeq(v) == IF v = <<>> THEN 0 ELSE v[1] + SumSeq(Tail(v))

\* a stored vector that is a distribution over n actions
IsDistribution(v, n) == Len(v) = n /\ SumSeq(v) = 100

\* every vector stored for a card of the first-to-act player sums to 1 and
\* has one entry per action of its information set
StoredValidP0(d) ==
  /\ \A key \in DOMAIN d : SumSeq(d[key]) = 100
  /\ kRoot \in DOMAIN d => Len(d[kRoot]) = 2
  /\ kCheckBet \in DOMAIN d => Len(d[kCheckBet]) = 3
  /\ kBetRaise \in DOMAIN d => Len(d[kBetRaise]) = 2

\* the dump of the end-to-end scenario, with its root record as the
\* scenario writes it and with the empty history of the dump format
ScenarioDump == <<sPLAYER0, RootAsWritten, CheckBetA, BetRaiseA, sEND>>

FormatDump == <<sPLAYER0, RootEmptyHistory, CheckBetA, BetRaiseA, sEND>>

\* the returned first-to-act table has the one column A with these values
OneColumnA(v0, v1, v2, v3, v4) ==
  /\ Len(ret) = 1
  /\ ret[1].index = RowsP0
  /\ ret[1].columns = <<cA>>
  /\ ret[1].values[0] = <<v0>>
  /\ ret[1].values[1] = <<v1>>
  /\ ret[1].values[2] = <<v2>>
  /\ ret[1].values[3] = <<v3>>
  /\ ret[1].values[4] = <<v4>>

Returned(p, file) == player = p /\ lines = file /\ pc = "done"

\* C1 as stated: the scenario's dump, with the root record written
\* "History: , Actions:", yields CHECK+FOLD 0.18, CHECK+CALLBET 0.06,
\* CHECK+RAISE 0.06, BET+FOLD 0.07, BET+CALLRAISE 0.63 in the one column A.
C1_ScenarioAsWritten == Returned(0, ScenarioDump) => OneColumnA(18, 6, 6, 7, 63)

\* C1 amended: the products 0.18, 0.06, 0.06, 0.07, 0.63 are returned for
\* the dump whose root record has the empty history of the dump format;
\* for the root record as the scenario writes it the history text is ","
\* so the root set is not found and the column holds 0.6, 0.2, 0.2, 0.1, 0.9.
C1_EndToEnd ==
  /\ Returned(0, FormatDump) => OneColumnA(18, 6, 6, 7, 63)
  /\ Returned(0, ScenarioDump) => OneColumnA(60, 20, 20, 10, 90)

C1_Witness == Returned(0, FormatDump) /\ DOMAIN strategies[cA] = {kRoot, kCheckBet, kBetRaise}

\* C2: in the first-to-act table, for every column whose stored vectors sum
\* to 1, the three CHECK+ rows add up to the P(CHECK) used for the card and
\* the two BET+ rows add up to the P(BET) used for it.
C2_BranchSums ==
  (player = 0 /\ pc = "done") =>
    \A c \in 1..Len(cards) :
      LET d == strategies[cards[c]]
          v == ret[1].values
      IN  StoredValidP0(d) =>
            /\ v[0][c] + v[1][c] + v[2][c] = CheckProbP0(d)
            /\ v[3][c] + v[4][c] = BetProbP0(d)

\* the checked-to distribution of a card: the stored vector, or always CHECK
CheckedToDist(d) == IF kCheckedTo \in DOMAIN d THEN d[kCheckedTo] ELSE <<0, 100>>

\* the stored vectors the checked-to sub-tree reads are distributions over
\* their two actions
CheckedToInputsValid(d) ==
  /\ kCheckedTo \in DOMAIN d => IsDistribution(d[kCheckedTo], 2)
  /\ kCheckBetRaise \in DOMAIN d => IsDistribution(d[kCheckBetRaise], 2)

\* C3: in the responder's checked-to table, for every column, BET+CALLRAISE
\* plus BET+FOLD is P(BET | checked-to) and the CHECK row is
\* P(CHECK | checked-to) itself, also when the "CHECK, BET, RAISE" set is
\* absent.
C3_CheckedToSums ==
  (player = 1 /\ pc = "done") =>
    /\ ret[1].index = RowsCheckedTo
    /\ ret[1].columns = cards
    /\ \A c \in 1..Len(cards) :
         LET d == strategies[cards[c]]
             v == ret[1].values
         IN  CheckedToInputsValid(d) =>
               /\ v[0][c] + v[1][c] = CheckedToDist(d)[1]
               /\ v[2][c] = CheckedToDist(d)[2]

C3_Witness ==
  /\ player = 1
  /\ pc = "done"
  /\ \E c \in 1..Len(cards) :
       LET d == strategies[cards[c]]
       IN  /\ CheckedToInputsValid(d)
           /\ kCheckedTo \in DOMAIN d
           /\ d[kCheckedTo][1] > 0
           /\ kCheckBetRaise \notin DOMAIN d
           /\ ret[1].values[1][c] = d[kCheckedTo][1]

\* the card loop left the function with an exception
ComposeFailed == pc = "error" /\ cards # <<>>

\* the vectors stored for d have the length the composer indexes them with
StoredLengthsFit(p, d) ==
  IF p = 0
  THEN /\ kRoot \in DOMAIN d => Len(d[kRoot]) >= 2
       /\ kCheckBet \in DOMAIN d => Len(d[kCheckBet]) >= 3
       /\ kBetRaise \in DOMAIN d => Len(d[kBetRaise]) >= 2
  ELSE /\ kCheckedTo \in DOMAIN d => Len(d[kCheckedTo]) >= 2
       /\ kCheckBetRaise \in DOMAIN d => Len(d[kCheckBetRaise]) >= 2
       /\ kBetInto \in DOMAIN d => Len(d[kBetInto]) >= 3

\* C4: an absent information set never makes the composer fail, and its
\* default is the documented one: an absent checked-to decision is always
\* CHECK; an absent fold/call decision (p0 at "BET, RAISE", p1 at
\* "CHECK, BET, RAISE") puts probability 1 on FOLD and 0 on the call.
C4_DocumentedDefaults ==
  /\ ComposeFailed => ~StoredLengthsFit(player, strategies[cards[i]])
  /\ (player = 1 /\ pc = "done") =>
       \A c \in 1..Len(cards) :
         LET d == strategies[cards[c]]
             v == ret[1].values
         IN  /\ kCheckedTo \notin DOMAIN d =>
                  v[0][c] = 0 /\ v[1][c] = 0 /\ v[2][c] = 100
             /\ (kCheckBetRaise \notin DOMAIN d /\ StoredLengthsFit(1, d)) =>
                  v[0][c] = 0 /\ v[1][c] = CheckedToDist(d)[1]
  /\ (player = 0 /\ pc = "done") =>
       \A c \in 1..Len(cards) :
         LET d == strategies[cards[c]]
             v == ret[1].values
         IN  kBetRaise \notin DOMAIN d =>
               v[4][c] = 0 /\ v[3][c] = BetProbP0(d)

\* a record line of the section (stripped, with the player's tag) that
\* does not hold exactly one tab
BadTab(line) == StartsWith(line, PlayerTag(player)) /\ Len(Split(line, <<"\t">>)) # 2

BadTabLines == {k \in 1..Len(player_lines) : BadTab(player_lines[k])}

\* C5: a record line of the player's section without exactly one tab ends
\* the run in an error: the record loop never passes the line, no card is
\* sorted or composed and no table is returned.
C5_TabCountFatal ==
  (pc # "scan" /\ BadTabLines # {}) =>
    /\ pc \in {"parse", "error"}
    /\ i <= Min(BadTabLines)
    /\ (pc = "error" /\ i = Min(BadTabLines)) => err = "ValueError"
    /\ cards = <<>>
    /\ ret = NoTable

C5_Witness ==
  /\ pc = "error"
  /\ BadTabLines # {}
  /\ strategies # <<>>
  /\ \E k \in 1..Len(player_lines) :
       k > Min(BadTabLines) /\ ParseRecord(player, player_lines[k]).ok

\* a record line whose number of probabilities differs from its number of
\* actions
CountMismatch(line) ==
  /\ StartsWith(line, PlayerTag(player))
  /\ ParseRecord(player, line).ok
  /\ Len(ParseRecord(player, line).probs) # Len(ParseRecord(player, line).actions)

\* C6: a record whose probability count differs from its action count is
\* rejected at parse time: it is never stored and no table is produced.
C6_CountMismatchRejected ==
  \A k \in 1..Len(player_lines) :
    (pc # "scan" /\ CountMismatch(player_lines[k])) =>
      /\ pc \in {"parse", "error"}
      /\ i <= k
      /\ ret = NoTable

\* the 13 rank symbols
Ranks == {<<card_order[k]>> : k \in 1..Len(card_order)}

\* C7: a stored card text that is not one of the 13 rank symbols makes
\* building the table fail: no card is composed and no table is returned.
C7_UnknownRankFatal ==
  (\E card \in DOMAIN strategies : card \notin Ranks) =>
    /\ pc \in {"parse", "error"}
    /\ ret = NoTable

\* C8's section of player p after the first k lines: opened by "PLAYER: p",
\* closed by "END" and by the other player's marker
RECURSIVE SectionOpen(_, _)
SectionOpen(p, k) ==
  IF k = 0 THEN FALSE
  ELSE IF Strip(lines[k]) = PlayerMarker(p) THEN TRUE
  ELSE IF Strip(lines[k]) \in {sEND, PlayerMarker(1 - p)} THEN FALSE
  ELSE SectionOpen(p, k - 1)

\* the record lines of player p that C8 lets contribute, in file order
RECURSIVE ScopedRecords(_, _)
ScopedRecords(p, k) ==
  IF k = 0 THEN <<>>
  ELSE IF SectionOpen(p, k - 1) /\ StartsWith(Strip(lines[k]), PlayerTag(p))
  THEN Append(ScopedRecords(p, k - 1), Strip(lines[k]))
  ELSE ScopedRecords(p, k - 1)

HasTag(line) == StartsWith(line, PlayerTag(player))

\* C8: the record lines the reader of player p parses are exactly the
\* lines with p's tag whose nearest preceding marker is "PLAYER: p", where
\* "END" and the other player's marker close the section.
C8_SectionScoping ==
  pc # "scan" => SelectSeq(player_lines, HasTag) = ScopedRecords(player, Len(lines))


\* the records the record loop has read when it is about to read line i:
\* one entry per line, the parsed record for a line with the player's tag
RECURSIVE RecordsRead(_)
RecordsRead(n) ==
  IF n = 0 THEN <<>>
  ELSE Append(RecordsRead(n - 1),
              IF HasTag(player_lines[n])
              THEN [tagged |-> TRUE, rec |-> ParseRecord(player, player_lines[n])]
              ELSE [tagged |-> FALSE])

\* a character that would make the composite key ambiguous
NoChar(text, c) == \A k \in 1..Len(text) : text[k] # c

\* a record of the dump format: two or three action names, as many
\* probabilities, no "|" or "," inside a history or an action name
WellFormed(r) ==
  /\ r.ok
  /\ Len(r.actions) \in {2, 3}
  /\ Len(r.probs) = Len(r.actions)
  /\ NoChar(r.history, "|")
  /\ \A a \in 1..Len(r.actions) : NoChar(r.actions[a], "|") /\ NoChar(r.actions[a], ",")

Triple(r) == <<r.card, r.history, r.actions>>

\* the vector written after the tab of a record line
VectorText(line) == ProbsOf(Split(line, <<"\t">>)[2])

\* C9: after any sequence of well-formed records the index holds, for each
\* (card, history, action list) read, the vector of the last record with
\* that triple, unchanged, and no entry is shared by two triples.
C9_LastWriteWins ==
  pc = "parse" =>
    LET read == RecordsRead(i - 1)
        R    == {k \in 1..Len(read) : read[k].tagged}
    IN  (\A k \in R : WellFormed(read[k].rec)) =>
          /\ \A k \in R :
               LET r    == read[k].rec
                   last == Max({j \in R : Triple(read[j].rec) = Triple(r)})
               IN  /\ r.card \in DOMAIN strategies
                   /\ r.key \in DOMAIN strategies[r.card]
                   /\ strategies[r.card][r.key] = VectorText(player_lines[last])
          /\ \A card \in DOMAIN strategies : \A key \in DOMAIN strategies[card] :
               Cardinality({Triple(read[k].rec) : k \in
                  {j \in R : read[j].rec.card = card /\ read[j].rec.key = key}}) = 1

C9_Witness ==
  /\ pc = "parse"
  /\ LET read == RecordsRead(i - 1)
         R    == {k \in 1..Len(read) : read[k].tagged}
     IN  /\ \A k \in R : WellFormed(read[k].rec)
         /\ \E j, k, m \in R :
              /\ j < k
              /\ Triple(read[j].rec) = Triple(read[k].rec)
              /\ read[j].rec.probs # read[k].rec.probs
              /\ read[m].rec.card = read[k].rec.card
              /\ read[m].rec.history # read[k].rec.history

\* C10: in the first-to-act table the P(CHECK) and P(BET) used for a card
\* sum to 1, also when the root set is absent, so the five values of a
\* column whose stored vectors sum to 1 never sum to more than 1.
C10_OneDistribution ==
  (player = 0 /\ pc = "done") =>
    \A c \in 1..Len(cards) :
      LET d == strategies[cards[c]]
          v == ret[1].values
      IN  StoredValidP0(d) =>
            /\ CheckProbP0(d) + BetProbP0(d) = 100
            /\ v[0][c] + v[1][c] + v[2][c] + v[3][c] + v[4][c] <= 100

====
